---------------------------- MODULE Spec2Model ----------------------------
(***************************************************************************)
(* A model of loggy (src/loggy/__init__.py): the LogStyle presets, the     *)
(* get_style resolver and the Log class with its five emission methods.    *)
(*                                                                         *)
(* Text is a string.  The icons are, character by character, the code     *)
(* points the source file holds.                                           *)
(***************************************************************************)
EXTENDS Integers, Sequences, FiniteSets, TLC

(***************************************************************************)
(* Bounds of the model.                                                    *)
(***************************************************************************)
MaxCalls == 2
MaxLines == 1
MaxInt == 12
MaxOverrides == 2
MaxTtyChanges == 1

(***************************************************************************)
(* Characters.  Text is a string; a character is a string of length one.   *)
(* One ASCII character that occurs nowhere else in the model's text stands *)
(* for each character a module string cannot hold: the escape character    *)
(* \033 and the non-ASCII characters of the icons, named by code point.    *)
(***************************************************************************)
ESC == "^"
NL == "\n"
TAB == "\t"
U00A0 == "_"
U00A2 == "%"
U00A5 == "$"
U00A7 == "&"
U00B2 == "+"
U00B8 == ","
U00B9 == "'"
U00BA == "*"
U00E2 == "@"
U00EF == ":"
U00F0 == "#"
U0152 == "{"
U0153 == "}"
U0161 == "/"
U0178 == "|"
U2013 == "="
U2019 == ")"
U201C == "<"
U201D == ">"
U201E == "."
U2026 == "~"
U20AC == "?"

NBSP == U00A0

(***************************************************************************)
(* Python's str operations, as far as the program uses them.               *)
(***************************************************************************)
\* The i-th character of s.
At(s, i) == SubSeq(s, i, i)

\* str.isspace() on one character: the whitespace the model's alphabet holds.
IsSpace(c) == c \in {" ", TAB, NL, NBSP}

RECURSIVE LStrip(_)
LStrip(s) == IF s # "" /\ IsSpace(At(s, 1)) THEN LStrip(SubSeq(s, 2, Len(s))) ELSE s

RECURSIVE RStrip(_)
RStrip(s) ==
    IF s # "" /\ IsSpace(At(s, Len(s))) THEN RStrip(SubSeq(s, 1, Len(s) - 1)) ELSE s

\* str.strip()
Strip(s) == RStrip(LStrip(s))

\* str.lower() on one character, for the letters of the model's alphabet.
LowerChar(c) ==
    CASE c = "T" -> "t" [] c = "R" -> "r" [] c = "U" -> "u" [] c = "E" -> "e"
      [] c = "Y" -> "y" [] c = "S" -> "s" [] c = "N" -> "n" [] c = "O" -> "o"
      [] OTHER -> c

\* str.lower()
RECURSIVE Lower(_)
Lower(s) == IF s = "" THEN "" ELSE LowerChar(At(s, 1)) \o Lower(SubSeq(s, 2, Len(s)))

Digit(d) ==
    CASE d = 0 -> "0" [] d = 1 -> "1" [] d = 2 -> "2" [] d = 3 -> "3" [] d = 4 -> "4"
      [] d = 5 -> "5" [] d = 6 -> "6" [] d = 7 -> "7" [] d = 8 -> "8" [] d = 9 -> "9"

RECURSIVE NatToStr(_)
NatToStr(n) == IF n < 10 THEN Digit(n) ELSE NatToStr(n \div 10) \o Digit(n % 10)

\* str(m) of a message part: a str is itself, an int its decimal form.
Str(m) ==
    IF m.t = "str" THEN m.v
    ELSE IF m.v < 0 THEN "-" \o NatToStr(0 - m.v) ELSE NatToStr(m.v)

\* sep.join(parts), parts a tuple of strings
RECURSIVE Join(_, _)
Join(sep, parts) ==
    IF parts = <<>> THEN ""
    ELSE IF Len(parts) = 1 THEN parts[1]
    ELSE parts[1] \o sep \o Join(sep, Tail(parts))

\* sub in s
Contains(s, sub) ==
    \E i \in 1..(Len(s) - Len(sub) + 1) : SubSeq(s, i, i + Len(sub) - 1) = sub

(***************************************************************************)
(* class bcolors                                                           *)
(***************************************************************************)
OKBLUE == ESC \o "[94m"
OKGREEN == ESC \o "[92m"
FAIL == ESC \o "[91m"
ENDC == ESC \o "[0m"
WARNING_ORANGE == ESC \o "[38;5;208m"
DIM == ESC \o "[2m"
BOLD == ESC \o "[1m"
CYAN == ESC \o "[96m"
GRAY == ESC \o "[90m"

bcolors == {OKBLUE, OKGREEN, FAIL, ENDC, WARNING_ORANGE, DIM, BOLD, CYAN, GRAY}

(***************************************************************************)
(* class LogStyle: the fifteen fields and their defaults.                  *)
(***************************************************************************)
Kinds == {"log", "ok", "info", "warn", "err"}

LabelFields == {"log_label", "ok_label", "info_label", "warn_label", "err_label"}
IconFields == {"log_icon", "ok_icon", "info_icon", "warn_icon", "err_icon"}
ColorFields == {"log_color", "ok_color", "info_color", "warn_color", "err_color"}
Fields == LabelFields \cup IconFields \cup ColorFields

LogStyle ==
    [ log_label  |-> "[Log]",
      ok_label   |-> "[OK]",
      info_label |-> "[Info]",
      warn_label |-> "[Warn]",
      err_label  |-> "[Error]",
      log_icon   |-> U00E2 \o U20AC \o U00A2,
      ok_icon    |-> U00E2 \o U0153 \o U2026,
      info_icon  |-> U00E2 \o U201E \o U00B9 \o U00EF \o U00B8,
      warn_icon  |-> U00E2 \o U0161 \o NBSP \o U00EF \o U00B8,
      err_icon   |-> U00E2 \o U0152,
      log_color  |-> DIM,
      ok_color   |-> OKGREEN,
      info_color |-> OKBLUE,
      warn_color |-> WARNING_ORANGE,
      err_color  |-> FAIL ]

\* dataclasses.replace(base, **overrides): a new value, base untouched.
replace(base, overrides) ==
    [f \in Fields |-> IF f \in DOMAIN overrides THEN overrides[f] ELSE base[f]]

(***************************************************************************)
(* STYLES: the built-in presets.                                           *)
(***************************************************************************)
ClassicWithIcons ==
    replace(LogStyle,
        [ log_label  |-> "[LOG]",
          ok_label   |-> "[OK]",
          info_label |-> "[INFO]",
          warn_label |-> "[WARN]",
          err_label  |-> "[ERR]" ])

Classic ==
    replace(LogStyle,
        [ log_icon |-> "", ok_icon |-> "", info_icon |-> "",
          warn_icon |-> "", err_icon |-> "",
          log_label  |-> "[LOG]",
          ok_label   |-> "[OK]",
          info_label |-> "[INFO]",
          warn_label |-> "[WARN]",
          err_label  |-> "[ERR]" ])

Minimal ==
    replace(LogStyle,
        [ log_icon  |-> U00E2 \o U20AC \o U00A2,
          ok_icon   |-> U00E2 \o U0153 \o U201C,
          info_icon |-> "i",
          warn_icon |-> "!",
          err_icon  |-> "x",
          log_label |-> "", ok_label |-> "", info_label |-> "",
          warn_label |-> "", err_label |-> "",
          log_color |-> GRAY, info_color |-> GRAY,
          warn_color |-> WARNING_ORANGE, err_color |-> FAIL ])

Cli ==
    replace(LogStyle,
        [ log_icon  |-> U00E2 \o U20AC \o U00BA,
          ok_icon   |-> U00E2 \o U0153 \o U201D,
          info_icon |-> U00E2 \o U201E \o U00B9,
          warn_icon |-> U00E2 \o U2013 \o U00B2,
          err_icon  |-> U00E2 \o U0153 \o U2013,
          log_label  |-> "[step]",
          ok_label   |-> "[ok]",
          info_label |-> "[info]",
          warn_label |-> "[warn]",
          err_label  |-> "[error]",
          log_color |-> DIM, ok_color |-> OKGREEN, info_color |-> CYAN,
          warn_color |-> WARNING_ORANGE, err_color |-> FAIL ])

Emoji ==
    replace(LogStyle,
        [ log_icon  |-> U00F0 \o U0178 \o U201C,
          ok_icon   |-> U00E2 \o U0153 \o U2026,
          info_icon |-> U00F0 \o U0178 \o U00A7 \o NBSP,
          warn_icon |-> U00E2 \o U0161 \o NBSP \o U00EF \o U00B8,
          err_icon  |-> U00F0 \o U0178 \o U2019 \o U00A5,
          log_label  |-> "[Log]",
          ok_label   |-> "[OK]",
          info_label |-> "[Info]",
          warn_label |-> "[Warn]",
          err_label  |-> "[Error]" ])

Plain ==
    replace(LogStyle,
        [ log_icon |-> "", ok_icon |-> "", info_icon |-> "",
          warn_icon |-> "", err_icon |-> "",
          log_color |-> "", ok_color |-> "", info_color |-> "",
          warn_color |-> "", err_color |-> "" ])

PresetNames == {"default", "classic", "minimal", "cli", "emoji", "plain"}

\* The table as the module builds it at load.
StylesAtLoad ==
    [ n \in PresetNames |->
        CASE n = "default" -> LogStyle
          [] n = "classic" -> Classic
          [] n = "minimal" -> Minimal
          [] n = "cli" -> Cli
          [] n = "emoji" -> Emoji
          [] n = "plain" -> Plain ]


(***************************************************************************)
(* State.                                                                  *)
(*   STYLES   the module-level preset table                                *)
(*   streams  the two text streams the caller hands to Log: what their     *)
(*            isatty() does, how often it was invoked, and the write and   *)
(*            flush operations they received, in order                     *)
(*   self     the Log instance (None before __init__ has completed)        *)
(*   args     the arguments and environment of the last Log(...) call      *)
(*   calls    the emission calls made on the instance, in order            *)
(*   ret      the last get_style call: its arguments and what it returned  *)
(*   raised   whether the last operation ended in an exception             *)
(*   changes  how often a stream's interactivity answer has changed        *)
(*   limit    how many emission calls the behaviour explores               *)
(***************************************************************************)
VARIABLES STYLES, streams, self, args, calls, ret, raised, changes, limit

vars == <<STYLES, streams, self, args, calls, ret, raised, changes, limit>>

None == [none |-> TRUE]

\* What stream.isatty() does: answers, raises, or is not there at all.
TtyModes == {"true", "false", "raises", "missing"}

Stream(mode) == [isatty |-> mode, queries |-> 0, ops |-> <<>>]

\* A Python call's outcome: a value, or an exception.
Returns(v) == [exc |-> FALSE, val |-> v]
Raises == [exc |-> TRUE, val |-> FALSE]

\* stream.isatty()
isatty(stream) ==
    CASE stream.isatty = "true" -> Returns(TRUE)
      [] stream.isatty = "false" -> Returns(FALSE)
      [] OTHER -> Raises

\* What one stream.isatty() lookup-and-call leaves on the stream: an isatty
\* that exists has been invoked once more.
Queried(stream) ==
    IF stream.isatty = "missing" THEN stream
    ELSE [stream EXCEPT !.queries = @ + 1]

_is_tty_unguarded(stream) == isatty(stream)

\* def _is_tty(stream): try: return stream.isatty() / except Exception: False
_is_tty(stream) ==
    LET r == isatty(stream) IN IF r.exc THEN Returns(FALSE) ELSE r

\* stream.write(text)
write(stream, text) ==
    [stream EXCEPT !.ops = Append(@, [op |-> "write", text |-> text])]

\* stream.flush()
flush(stream) ==
    [stream EXCEPT !.ops = Append(@, [op |-> "flush", text |-> ""])]

(***************************************************************************)
(* get_style                                                               *)
(***************************************************************************)
get_style_strict(name, overrides) ==
    LET base == IF name \in DOMAIN STYLES THEN STYLES[name] ELSE STYLES["plain"]
    IN  IF DOMAIN overrides # {} THEN replace(base, overrides) ELSE base

\* base = STYLES.get(name, STYLES["default"])
\* return replace(base, **overrides) if overrides else base
get_style(name, overrides) ==
    LET base == IF name \in DOMAIN STYLES THEN STYLES[name] ELSE STYLES["default"]
    IN  IF DOMAIN overrides # {} THEN replace(base, overrides) ELSE base

NoOverrides == [f \in {} |-> ""]

GetStyleInPlace(name, overrides) ==
    /\ ret' = [none |-> FALSE, name |-> name, overrides |-> overrides,
               style |-> get_style(name, overrides)]
    /\ STYLES' = IF name \in DOMAIN STYLES /\ DOMAIN overrides # {}
                 THEN [STYLES EXCEPT ![name] = replace(@, overrides)]
                 ELSE STYLES
    /\ raised' = FALSE
    /\ UNCHANGED <<streams, self, args, calls, changes, limit>>

\* A call get_style(name, **overrides) by the host program.
GetStyle(name, overrides) ==
    /\ ret' = [none |-> FALSE, name |-> name, overrides |-> overrides,
               style |-> get_style(name, overrides)]
    /\ raised' = FALSE
    /\ UNCHANGED <<STYLES, streams, self, args, calls, changes, limit>>

(***************************************************************************)
(* Log.__init__                                                            *)
(***************************************************************************)
\* os.getenv(name, default) on the DEBUG_LOGS entry of the environment.
getenv(env, default) == IF env.set THEN env.v ELSE default

Truthy == { "1", "true", "yes" }

\* debug or (os.getenv("DEBUG_LOGS", "").lower() in {"1", "true", "yes"})
DebugEnabled(debug, env) == debug \/ Lower(getenv(env, "")) \in Truthy

\* if isinstance(style, str) ... elif isinstance(style, LogStyle) ... else ...
ResolveStyle(style) ==
    IF style.t = "str" THEN get_style(style.v, NoOverrides)
    ELSE IF style.t = "LogStyle" THEN style.v
    ELSE STYLES["default"]

\* Log(debug, verbose, use_color, use_icons, style, stream_out, stream_err) with
\* DEBUG_LOGS as env.  `and` evaluates _is_tty only when its left side is true.
\* An exception leaves no instance behind.
New(debug, env, use_color, use_icons, style, stream_out, stream_err) ==
    LET c == IF use_color THEN _is_tty(streams[stream_out]) ELSE Returns(FALSE)
        afterC == IF use_color THEN Queried(streams[stream_out])
                  ELSE streams[stream_out]
        i == IF use_icons /\ ~c.exc THEN _is_tty(afterC) ELSE Returns(FALSE)
        afterI == IF use_icons /\ ~c.exc THEN Queried(afterC) ELSE afterC
    IN  /\ args' = [none |-> FALSE, debug |-> debug, env |-> env,
                    use_color |-> use_color, use_icons |-> use_icons,
                    style |-> style, isatty |-> streams[stream_out].isatty]
        /\ streams' = [streams EXCEPT ![stream_out] = afterI]
        /\ raised' = (c.exc \/ i.exc)
        /\ self' = IF c.exc \/ i.exc THEN None
                   ELSE [none |-> FALSE,
                         debug |-> DebugEnabled(debug, env),
                         style |-> ResolveStyle(style),
                         use_color |-> c.val, use_icons |-> i.val,
                         out |-> stream_out, err_stream |-> stream_err]
        /\ UNCHANGED <<STYLES, calls, ret, changes, limit>>

(***************************************************************************)
(* Log._fmt, Log._prefix, Log._write                                       *)
(***************************************************************************)
_fmt_nosep(msg) == Join("", [i \in 1..Len(msg) |-> Str(msg[i])])

\* " ".join(str(m) for m in msg)
_fmt(msg) == Join(" ", [i \in 1..Len(msg) |-> Str(msg[i])])

\* label = label.strip(); icon and label when icons are on, else the label
_prefix(slf, icon, label) ==
    LET l == Strip(label)
    IN  IF slf.use_icons /\ icon # "" THEN Strip(icon \o " " \o l) ELSE l

_write_noflush(slf, stream, prefix, color, msg) ==
    LET text == _fmt(msg)
        line == IF prefix # "" THEN prefix \o " " \o text ELSE text
    IN  IF slf.use_color /\ color # ""
        THEN write(stream, color \o line \o ENDC \o NL)
        ELSE write(stream, line \o NL)

_write_requery(slf, stream, prefix, color, msg) ==
    LET text == _fmt(msg)
        line == IF prefix # "" THEN prefix \o " " \o text ELSE text
    IN  IF slf.use_color /\ _is_tty(stream).val /\ color # ""
        THEN flush(write(Queried(stream), color \o line \o ENDC \o NL))
        ELSE flush(write(Queried(stream), line \o NL))

_write_wraps_empty_color(slf, stream, prefix, color, msg) ==
    LET text == _fmt(msg)
        line == IF prefix # "" THEN prefix \o " " \o text ELSE text
    IN  IF slf.use_color
        THEN flush(write(stream, color \o line \o ENDC \o NL))
        ELSE flush(write(stream, line \o NL))

\* The stream after _write(stream, prefix, color, *msg): one write, one flush.
_write(slf, stream, prefix, color, msg) ==
    LET text == _fmt(msg)
        line == IF prefix # "" THEN prefix \o " " \o text ELSE text
    IN  IF slf.use_color /\ color # ""
        THEN flush(write(stream, color \o line \o ENDC \o NL))
        ELSE flush(write(stream, line \o NL))

(***************************************************************************)
(* The five emission methods.  Each is a call on a constructed instance;  *)
(* the model stops after `limit` of them.                                  *)
(***************************************************************************)
Called(kind, msg) ==
    /\ self # None
    /\ Len(calls) < limit
    /\ calls' = Append(calls, [kind |-> kind, msg |-> msg])
    /\ raised' = FALSE
    /\ UNCHANGED <<STYLES, self, args, ret, changes, limit>>

log_ungated(msg) ==
    /\ Called("log", msg)
    /\ streams' = [streams EXCEPT ![self.out] =
            _write(self, @, _prefix(self, self.style.log_icon, self.style.log_label),
                   self.style.log_color, msg)]

log(msg) ==
    /\ Called("log", msg)
    /\ streams' =
         IF self.debug
         THEN [streams EXCEPT ![self.out] =
                 _write(self, @,
                        _prefix(self, self.style.log_icon, self.style.log_label),
                        self.style.log_color, msg)]
         ELSE streams

ok(msg) ==
    /\ Called("ok", msg)
    /\ streams' = [streams EXCEPT ![self.out] =
            _write(self, @, _prefix(self, self.style.ok_icon, self.style.ok_label),
                   self.style.ok_color, msg)]

info(msg) ==
    /\ Called("info", msg)
    /\ streams' =
         IF self.debug
         THEN [streams EXCEPT ![self.out] =
                 _write(self, @,
                        _prefix(self, self.style.info_icon, self.style.info_label),
                        self.style.info_color, msg)]
         ELSE streams

warn(msg) ==
    /\ Called("warn", msg)
    /\ streams' = [streams EXCEPT ![self.out] =
            _write(self, @, _prefix(self, self.style.warn_icon, self.style.warn_label),
                   self.style.warn_color, msg)]

err(msg) ==
    /\ Called("err", msg)
    /\ streams' = [streams EXCEPT ![self.err_stream] =
            _write(self, @, _prefix(self, self.style.err_icon, self.style.err_label),
                   self.style.err_color, msg)]

(***************************************************************************)
(* The environment: a stream's interactivity answer changes (the terminal  *)
(* goes away, the output is redirected).                                   *)
(***************************************************************************)
TtyChanges(s, mode) ==
    /\ changes < MaxTtyChanges
    /\ streams[s].isatty # mode
    /\ streams' = [streams EXCEPT ![s].isatty = mode]
    /\ changes' = changes + 1
    /\ raised' = FALSE
    /\ UNCHANGED <<STYLES, self, args, calls, ret, limit>>


(***************************************************************************)
(* Inputs.                                                                 *)
(***************************************************************************)
StrPart(v) == [t |-> "str", v |-> v]
IntPart(n) == [t |-> "int", v |-> n]

MsgDiskFull == << StrPart("disk"), StrPart("full") >>
MsgStarting ==
    << StrPart("starting"), IntPart(1), IntPart(2) >>
MsgNumbers == << IntPart(0 - MaxInt), StrPart(""), IntPart(MaxInt) >>

\* Message tuples: no parts, strings, integers, an empty string among them.
Msgs == { <<>>, MsgDiskFull, MsgStarting, MsgNumbers }

EnvUnset == [set |-> FALSE, v |-> ""]
Env(v) == [set |-> TRUE, v |-> v]

\* Values of DEBUG_LOGS: unset, the three accepted words in several cases,
\* and values that are not accepted.
EnvValues ==
    { EnvUnset, Env("1"), Env("TRUE"), Env("Yes"),
      Env("0"), Env("true "), Env("on") }

BOOM == "BOOM"

\* A caller's own style: padded labels, a blank icon, an icon that ends in a
\* no-break space beside an empty label, an empty color.
Custom ==
    replace(Minimal,
        [ warn_icon  |-> "!",
          warn_label |-> " [warn]  ",
          err_icon   |-> " ",
          err_label  |-> "E",
          info_icon  |-> U00F0 \o U0178 \o U00A7 \o NBSP,
          info_label |-> "",
          log_icon   |-> "",
          log_label  |-> TAB \o "L",
          ok_label   |-> " ",
          ok_icon    |-> "",
          ok_color   |-> BOLD,
          log_color  |-> "" ])

NameArg(n) == [t |-> "str", v |-> n]
StyleValue(v) == [t |-> "LogStyle", v |-> v]
NoStyle == [t |-> "None", v |-> ""]
OtherArg == [t |-> "other", v |-> 7]

\* Names handed to get_style and to Log(style=...): the presets and others.
Names == PresetNames \cup {"", "nope", "Default", "plain "}

InitWith(outModes, errModes, n) ==
    /\ STYLES = StylesAtLoad
    /\ \E o \in outModes, e \in errModes :
          streams = [s \in {"out", "err"} |->
                        IF s = "out" THEN Stream(o) ELSE Stream(e)]
    /\ self = None
    /\ args = None
    /\ calls = <<>>
    /\ ret = None
    /\ raised = FALSE
    /\ changes = 0
    /\ limit = n

(***************************************************************************)
(* Spec: one Log of any preset or a caller's style, on streams that are    *)
(* or are not terminals, and its first lines.                              *)
(***************************************************************************)
Init == InitWith({"true", "false"}, {"true", "false"}, MaxLines)

Construct ==
    /\ self = None
    /\ \E debug \in BOOLEAN, use_color \in BOOLEAN, use_icons \in BOOLEAN,
          style \in {NameArg(n) : n \in PresetNames} \cup {StyleValue(Custom)} :
            New(debug, EnvUnset, use_color, use_icons, style, "out", "err")

Next ==
    \/ Construct
    \/ \E msg \in Msgs : log(msg) \/ ok(msg) \/ info(msg) \/ warn(msg) \/ err(msg)

Spec == Init /\ [][Next]_vars


(***************************************************************************)
(* What the streams hold, and the calls that reach each of them.           *)
(***************************************************************************)
StreamIds == {"out", "err"}

IsWrite(o) == o.op = "write"

\* The write operations a stream received, in order.
Writes(s) == SelectSeq(streams[s].ops, IsWrite)

PassesGate(c) == c.kind \in {"ok", "warn", "err"} \/ self.debug
ToOut(c) == PassesGate(c) /\ c.kind # "err"
ToErr(c) == PassesGate(c) /\ c.kind = "err"

\* The calls that pass the debug gate and are bound for stream s, in order.
CallsTo(s) == IF s = "err" THEN SelectSeq(calls, ToErr) ELSE SelectSeq(calls, ToOut)

IconOf(style, k) ==
    CASE k = "log" -> style.log_icon [] k = "ok" -> style.ok_icon
      [] k = "info" -> style.info_icon [] k = "warn" -> style.warn_icon
      [] k = "err" -> style.err_icon

LabelOf(style, k) ==
    CASE k = "log" -> style.log_label [] k = "ok" -> style.ok_label
      [] k = "info" -> style.info_label [] k = "warn" -> style.warn_label
      [] k = "err" -> style.err_label

ColorOf(style, k) ==
    CASE k = "log" -> style.log_color [] k = "ok" -> style.ok_color
      [] k = "info" -> style.info_color [] k = "warn" -> style.warn_color
      [] k = "err" -> style.err_color

(***************************************************************************)
(* The reference composition of a line, as the specification words it.     *)
(***************************************************************************)
RECURSIVE RefJoined(_)
RefJoined(m) ==
    IF m = <<>> THEN ""
    ELSE IF Len(m) = 1 THEN Str(m[1])
    ELSE RefJoined(SubSeq(m, 1, Len(m) - 1)) \o " " \o Str(m[Len(m)])

RefPrefix(slf, k) ==
    IF slf.use_icons /\ IconOf(slf.style, k) # ""
    THEN Strip(IconOf(slf.style, k) \o " " \o Strip(LabelOf(slf.style, k)))
    ELSE Strip(LabelOf(slf.style, k))

RefLine(slf, c) ==
    IF RefPrefix(slf, c.kind) # ""
    THEN RefPrefix(slf, c.kind) \o " " \o RefJoined(c.msg)
    ELSE RefJoined(c.msg)

RefOutput(slf, c) ==
    ( IF slf.use_color /\ ColorOf(slf.style, c.kind) # ""
      THEN ColorOf(slf.style, c.kind) \o RefLine(slf, c) \o ENDC
      ELSE RefLine(slf, c) ) \o NL

HasColorCode(text) == \E code \in bcolors : Contains(text, code)

ClassicInfoLine == "[INFO] starting 1 2" \o NL

(***************************************************************************)
(* C7.  Line composition: the text of every write is the reference line of *)
(* the call that caused it (the joined string forms of the parts, behind   *)
(* the trimmed icon-and-label prefix, wrapped in the color and the reset   *)
(* code when color is on, and one newline); and the classic preset with    *)
(* debug on and color off writes "[INFO] starting 1 2" for                 *)
(* info("starting", 1, 2), with no color code.                             *)
(***************************************************************************)
LineComposition ==
    self # None =>
      /\ \A s \in StreamIds :
           /\ Len(Writes(s)) = Len(CallsTo(s))
           /\ \A i \in 1..Len(Writes(s)) :
                Writes(s)[i].text = RefOutput(self, CallsTo(s)[i])
      /\ ( /\ args.style = NameArg("classic") /\ args.debug /\ ~args.use_color
           /\ calls # <<>>
           /\ calls[1] = [kind |-> "info", msg |-> MsgStarting] )
         => ( /\ Writes("out")[1].text = ClassicInfoLine
              /\ ~HasColorCode(Writes("out")[1].text) )

\* A caller's style on a terminal: warn("disk", "full") comes out as the
\* icon, the trimmed label and the message, inside the color and the reset.
LineCompositionWitness ==
    /\ self # None
    /\ self.style = Custom /\ self.use_color /\ self.use_icons
    /\ calls = << [kind |-> "warn", msg |-> MsgDiskFull] >>
    /\ Writes("out")[1].text =
         WARNING_ORANGE
         \o "! [warn] disk full"
         \o ENDC \o NL

(***************************************************************************)
(* C3.  The plain preset.  As claimed: every line is the joined message    *)
(* and a newline, with no label in front.                                  *)
(***************************************************************************)
PlainIsBareMessage ==
    (self # None /\ args.style = NameArg("plain")) =>
      \A s \in StreamIds : \A i \in 1..Len(Writes(s)) :
        Writes(s)[i].text = RefJoined(CallsTo(s)[i].msg) \o NL

PlainLabel(k) ==
    CASE k = "log" -> "[Log]"
      [] k = "ok" -> "[OK]"
      [] k = "info" -> "[Info]"
      [] k = "warn" -> "[Warn]"
      [] k = "err" -> "[Error]"

\* C3 as amended: with the plain preset every line is the kind's label, one
\* space, the joined message and a newline, with no icon and no color code,
\* whatever the color and icon flags and the streams' interactivity.
PlainKeepsLabel ==
    (self # None /\ args.style = NameArg("plain")) =>
      \A s \in StreamIds :
        /\ Len(Writes(s)) = Len(CallsTo(s))
        /\ \A i \in 1..Len(Writes(s)) :
             /\ Writes(s)[i].text =
                  PlainLabel(CallsTo(s)[i].kind) \o " "
                  \o RefJoined(CallsTo(s)[i].msg) \o NL
             /\ ~HasColorCode(Writes(s)[i].text)

PlainWitness ==
    /\ self # None
    /\ args.style = NameArg("plain")
    /\ self.use_color /\ self.use_icons
    /\ calls = << [kind |-> "ok", msg |-> MsgDiskFull] >>
    /\ Writes("out")[1].text =
         "[OK] disk full" \o NL

(***************************************************************************)
(* C2.  No color code reaches a stream that is not a terminal: the text of *)
(* every write to such a stream holds neither a color start code nor the   *)
(* reset code.                                                             *)
(***************************************************************************)
NoColorOffTerminal ==
    \A s \in StreamIds :
      streams[s].isatty # "true" =>
        \A i \in 1..Len(Writes(s)) : ~HasColorCode(Writes(s)[i].text)


(***************************************************************************)
(* SpecGate: one Log under every debug argument and DEBUG_LOGS value, and  *)
(* sequences of calls of the five kinds.                                   *)
(***************************************************************************)
GateMsgs == {MsgDiskFull, MsgStarting}

InitGate == InitWith({"true", "false"}, {"true", "false"}, MaxCalls)

ConstructGate ==
    /\ self = None
    /\ \E debug \in BOOLEAN, env \in EnvValues,
          style \in {NameArg("default"), NameArg("minimal")} :
            New(debug, env, TRUE, TRUE, style, "out", "err")

NextGate ==
    \/ ConstructGate
    \/ \E msg \in GateMsgs : log(msg) \/ ok(msg) \/ info(msg) \/ warn(msg) \/ err(msg)

SpecGate == InitGate /\ [][NextGate]_vars

IsKind(c, ks) == c.kind \in ks
IsLogOrInfo(c) == IsKind(c, {"log", "info"})
IsOkOrWarn(c) == IsKind(c, {"ok", "warn"})
IsErr(c) == IsKind(c, {"err"})

\* The values of DEBUG_LOGS, among EnvValues, that turn debug on.
AcceptedEnv == { Env("1"), Env("TRUE"), Env("Yes") }

\* A text that is one line: one newline, at its end.
OneLine(text) ==
    /\ text # ""
    /\ At(text, Len(text)) = NL
    /\ \A i \in 1..(Len(text) - 1) : At(text, i) # NL

(***************************************************************************)
(* C1.  Debug gate: the debug flag is the constructor argument or an       *)
(* accepted DEBUG_LOGS value; while it is false the log and info calls     *)
(* leave both streams as they were and raise nothing; every ok, warn and   *)
(* err call writes exactly one line, whatever the flag.                    *)
(***************************************************************************)
DebugGate ==
    self # None =>
      /\ self.debug = (args.debug \/ args.env \in AcceptedEnv)
      /\ raised = FALSE
      /\ Len(Writes("err")) = Len(SelectSeq(calls, IsErr))
      /\ Len(Writes("out")) =
           Len(SelectSeq(calls, IsOkOrWarn))
           + (IF self.debug THEN Len(SelectSeq(calls, IsLogOrInfo)) ELSE 0)
      /\ \A s \in StreamIds : \A i \in 1..Len(Writes(s)) : OneLine(Writes(s)[i].text)

\* Debug off (DEBUG_LOGS is "true " with a trailing blank): log then err
\* leaves the out stream untouched and one line on the err stream.
DebugGateWitness ==
    /\ self # None
    /\ ~self.debug
    /\ args.env = Env("true ")
    /\ Len(calls) = 2 /\ calls[1].kind = "log" /\ calls[2].kind = "err"
    /\ streams["out"].ops = <<>>
    /\ Len(Writes("err")) = 1

Dest(kind) == IF kind = "err" THEN "err" ELSE "out"

(***************************************************************************)
(* C8.  Write then flush on the kind's destination: each stream's          *)
(* operations are, call by call in call order, one write of the call's     *)
(* newline-terminated line and then one flush; the calls of a stream are   *)
(* the log, ok, info and warn calls for the out stream and the err calls   *)
(* for the err stream, so nothing is ever left unflushed and nothing goes  *)
(* to the other stream.                                                    *)
(***************************************************************************)
WriteThenFlush ==
    self # None =>
      /\ self.out = "out" /\ self.err_stream = "err"
      /\ \A s \in StreamIds :
           /\ \A i \in 1..Len(CallsTo(s)) : Dest(CallsTo(s)[i].kind) = s
           /\ Len(streams[s].ops) = 2 * Len(CallsTo(s))
           /\ \A i \in 1..Len(CallsTo(s)) :
                /\ streams[s].ops[2 * i - 1] =
                     [op |-> "write", text |-> RefOutput(self, CallsTo(s)[i])]
                /\ OneLine(streams[s].ops[2 * i - 1].text)
                /\ streams[s].ops[2 * i] = [op |-> "flush", text |-> ""]
      /\ Len(CallsTo("out")) + Len(CallsTo("err")) = Len(SelectSeq(calls, PassesGate))

WriteThenFlushWitness ==
    /\ self # None
    /\ Len(calls) = 2 /\ calls[1].kind = "err" /\ calls[2].kind = "warn"
    /\ Len(streams["err"].ops) = 2 /\ Len(streams["out"].ops) = 2
    /\ streams["err"].ops[1].op = "write" /\ streams["err"].ops[2].op = "flush"
    /\ streams["out"].ops[1].op = "write" /\ streams["out"].ops[2].op = "flush"

(***************************************************************************)
(* SpecTty: construction on streams whose isatty answers, raises or is     *)
(* missing, with every kind of style argument; the answer may change       *)
(* afterwards.                                                             *)
(***************************************************************************)
InitTty == InitWith(TtyModes, {"true", "false"}, MaxLines)

ConstructTty ==
    /\ self = None
    /\ \E debug \in BOOLEAN, use_color \in BOOLEAN, use_icons \in BOOLEAN,
          style \in {NameArg("cli"), NameArg("nope"), StyleValue(Custom),
                     NoStyle, OtherArg} :
            New(debug, EnvUnset, use_color, use_icons, style, "out", "err")

NextTty ==
    \/ ConstructTty
    \/ \E s \in StreamIds, mode \in TtyModes : TtyChanges(s, mode)
    \/ log(MsgDiskFull) \/ ok(MsgDiskFull) \/ info(MsgDiskFull)
    \/ warn(MsgDiskFull) \/ err(MsgDiskFull)

SpecTty == InitTty /\ [][NextTty]_vars

\* How many of the two flags the constructor was asked to turn on.
Requested(a) == (IF a.use_color THEN 1 ELSE 0) + (IF a.use_icons THEN 1 ELSE 0)

FlagsAsConstructed ==
    self # None =>
      /\ self.use_color = (args.use_color /\ args.isatty = "true")
      /\ self.use_icons = (args.use_icons /\ args.isatty = "true")

(***************************************************************************)
(* C9.  As claimed: constructing a Log invokes the out stream's isatty     *)
(* exactly once (where the stream has one), no emission call invokes       *)
(* either stream's, and the two flags keep their construction-time values. *)
(***************************************************************************)
QueriedExactlyOnce ==
    (args # None /\ args.isatty # "missing") =>
      /\ streams["out"].queries = 1
      /\ streams["err"].queries = 0
      /\ FlagsAsConstructed

\* C9 as amended: constructing a Log invokes the out stream's isatty once
\* for each of use_color and use_icons that is requested (twice by default,
\* not at all when both are off or the stream has no isatty) and never the
\* err stream's; no emission call invokes either, and the two flags keep
\* their construction-time values even if the answer changes afterwards.
QueriedAtConstructionOnly ==
    /\ streams["err"].queries = 0
    /\ args = None => streams["out"].queries = 0
    /\ args # None =>
         /\ streams["out"].queries =
              (IF args.isatty = "missing" THEN 0 ELSE Requested(args))
         /\ FlagsAsConstructed

QueriedWitness ==
    /\ self # None
    /\ changes > 0
    /\ args.isatty = "true" /\ streams["out"].isatty = "false"
    /\ self.use_color /\ self.use_icons
    /\ calls # <<>> /\ Len(Writes("out")) = 1
    /\ streams["out"].queries = 2

(***************************************************************************)
(* C10.  Construction never fails: whatever the style argument and         *)
(* whatever the out stream's isatty does, Log(...) raises nothing and      *)
(* leaves an instance; an isatty that is missing, raises or answers false  *)
(* leaves use_color and use_icons false whatever was requested; an unknown *)
(* name, no style and a value of another type give the default preset.     *)
(***************************************************************************)
ConstructionNeverFails ==
    /\ raised = FALSE
    /\ args # None =>
         /\ self # None
         /\ args.isatty \in {"missing", "raises", "false"} =>
              (~self.use_color /\ ~self.use_icons)
         /\ args.style \in {NameArg("nope"), NoStyle, OtherArg} =>
              self.style = LogStyle

ConstructionWitness ==
    /\ self # None
    /\ args.isatty = "raises" /\ args.use_color /\ args.use_icons
    /\ args.style = OtherArg
    /\ ~self.use_color /\ ~self.use_icons
    /\ self.style = LogStyle

(***************************************************************************)
(* SpecStyle: calls of get_style, with and without overrides, and Log      *)
(* constructions with every kind of style argument.                        *)
(***************************************************************************)
OverrideFields ==
    {"err_label", "log_label", "warn_icon", "info_icon", "ok_color", "err_color"}
OverrideValues == {BOOM, ""}
OverrideNames == {"minimal", "nope"}

\* The keyword arguments: up to MaxOverrides of the fields, each with a value.
Overrides ==
    UNION { [S -> OverrideValues] :
              S \in {T \in SUBSET OverrideFields : Cardinality(T) \in 1..MaxOverrides} }

InitStyle == InitWith({"true"}, {"false"}, 0)

Resolve == \E name \in Names : GetStyle(name, NoOverrides)

Override == \E name \in OverrideNames, ov \in Overrides : GetStyle(name, ov)

ConstructStyled ==
    \E style \in {NameArg(n) : n \in Names}
                 \cup {StyleValue(Custom), StyleValue(replace(Minimal, [err_label |-> BOOM])),
                       NoStyle, OtherArg} :
        New(FALSE, EnvUnset, FALSE, FALSE, style, "out", "err")

NextStyle == Resolve \/ Override \/ ConstructStyled

SpecStyle == InitStyle /\ [][NextStyle]_vars

\* The preset a name stands for: its own, or the default preset.
RefPreset(n) ==
    CASE n = "default" -> LogStyle
      [] n = "classic" -> Classic
      [] n = "minimal" -> Minimal
      [] n = "cli" -> Cli
      [] n = "emoji" -> Emoji
      [] n = "plain" -> Plain
      [] OTHER -> LogStyle

AllEmpty(style, fs) == \A f \in fs : style[f] = ""
NoneEmpty(style, fs) == \A f \in fs : style[f] # ""

TableIsComplete ==
    /\ DOMAIN STYLES = {"default", "classic", "minimal", "cli", "emoji", "plain"}
    /\ \A n \in DOMAIN STYLES : DOMAIN STYLES[n] = Fields
    /\ AllEmpty(STYLES["plain"], IconFields \cup ColorFields)
    /\ NoneEmpty(STYLES["plain"], LabelFields)
    /\ AllEmpty(STYLES["minimal"], LabelFields)
    /\ NoneEmpty(STYLES["minimal"], IconFields)

(***************************************************************************)
(* C4.  As claimed: six presets of fifteen fields; plain has no icons and  *)
(* no colors but has labels; minimal and classic have no labels but have   *)
(* icons.                                                                  *)
(***************************************************************************)
PresetTableAsClaimed ==
    /\ TableIsComplete
    /\ AllEmpty(STYLES["classic"], LabelFields)
    /\ NoneEmpty(STYLES["classic"], IconFields)

\* C4 as amended: six presets of fifteen fields; plain has no icons and no
\* colors but has labels; minimal has no labels but has icons; classic has
\* no icons but has labels.
PresetTable ==
    /\ TableIsComplete
    /\ AllEmpty(STYLES["classic"], IconFields)
    /\ NoneEmpty(STYLES["classic"], LabelFields)

PresetTableWitness ==
    /\ ret # None
    /\ ret.name = "classic" /\ ret.overrides = NoOverrides
    /\ ret.style.info_icon = ""
    /\ ret.style.info_label = "[INFO]"
    /\ self # None /\ self.style = STYLES["minimal"]

(***************************************************************************)
(* C5.  Style resolution: get_style(name) without overrides, and           *)
(* Log(style=name), give the preset of that name, or the default preset    *)
(* for any other string; Log(style=<a LogStyle>) keeps that value and      *)
(* Log() has the default preset.                                           *)
(***************************************************************************)
StyleResolution ==
    /\ (ret # None /\ ret.overrides = NoOverrides) => ret.style = RefPreset(ret.name)
    /\ self # None =>
         /\ args.style.t = "str" => self.style = RefPreset(args.style.v)
         /\ args.style.t = "LogStyle" => self.style = args.style.v
         /\ args.style.t = "None" => self.style = LogStyle

StyleResolutionWitness ==
    /\ ret # None
    /\ ret.name = "" /\ ret.overrides = NoOverrides /\ ret.style = LogStyle
    /\ self # None
    /\ args.style = NameArg("plain ") /\ self.style = LogStyle

(***************************************************************************)
(* C6.  Overrides never mutate the registry: get_style(name, overrides)    *)
(* returns the base preset with exactly the overridden fields changed, and *)
(* after any calls of get_style and any constructions every preset is      *)
(* field for field what it was at load.                                    *)
(***************************************************************************)
OverridesLeaveRegistry ==
    /\ (ret # None /\ ret.overrides # NoOverrides) =>
         \A f \in Fields :
           ret.style[f] = IF f \in DOMAIN ret.overrides THEN ret.overrides[f]
                          ELSE RefPreset(ret.name)[f]
    /\ \A n \in PresetNames : \A f \in Fields : STYLES[n][f] = RefPreset(n)[f]

\* get_style("minimal", err_label="BOOM"): minimal but for err_label, and the
\* registered minimal still has its empty err_label.
OverridesWitness ==
    /\ ret # None
    /\ ret.name = "minimal" /\ ret.overrides = [err_label |-> BOOM]
    /\ ret.style = [Minimal EXCEPT !.err_label = BOOM]
    /\ STYLES["minimal"].err_label = ""

=============================================================================
